---- MODULE Spec2Model ----
(***************************************************************************)
(* A model of the code-interpreter agent of PythonE2B:                     *)
(*   - the agent/tool loop built by create_workflow (workflow.py),         *)
(*   - the Flask handlers /run and /clear over the process-wide            *)
(*     ConversationManager (app.py, conversation.py), one thread per       *)
(*     request, interleaved at the accesses to the shared tables,          *)
(*   - the sandbox adapter E2BCodeInterpreter (code_interpreter.py),       *)
(*   - the ConversationManager driven call by call.                        *)
(* Each part has its own specification over the same variables; the parts  *)
(* a specification does not drive stay at their initial values.            *)
(***************************************************************************)
EXTENDS Integers, Sequences, FiniteSets, TLC

VARIABLES
    \* ---- agent loop (workflow.py: create_workflow) ----
    lmsgs,      \* the MessageGraph state: the list of messages
    lpc,        \* next node: "agent", "action", END, or "raised"
    lcause,     \* what raised: "none", "llm", "dispatch" ("lookup": unbound tool)
    rounds,     \* calls made to the inference service
    acts,       \* completed runs of the "action" node
    sbRuns,     \* call ids handed to the sandbox's run_code, in order
    \* ---- ConversationManager (conversation.py), process-wide ----
    sessions,       \* self.sessions: session id -> memory object (0: no key)
    conversations,  \* self.conversations: session id -> Conversation (0: no key)
    memHeap,        \* the memory objects: object -> chat_memory.messages
    convHeap,       \* the Conversation objects: object -> [files, messages]
    \* ---- request threads of the Flask app (app.py) ----
    pc,         \* where each thread is in its handler
    req,        \* the request a thread serves: kind, session id, prompt
    mem,        \* run_agent's local `memory` (object, 0: unset)
    conv,       \* run_agent's local `conversation` (object, 0: unset)
    work,       \* process_with_memory's all_messages, then `result`
    cause,      \* the exception in flight in the handler ("none": none)
    resp,       \* the HTTP response of the thread's request
    liveSb,     \* remote sandboxes alive, counted per thread that made them
    tool,       \* run_agent's local_code_interpreter: the thread whose request
                \* constructed the tool this request works with ("none": unset)
    ranIn,      \* the tool in whose sandbox the request's code ran ("none": none)
    nreq,       \* requests received so far
    \* ---- one E2BCodeInterpreter and the remote service (code_interpreter.py) ----
    adSandbox,  \* self.sandbox: the handle held (0: None)
    remote,     \* the remote sandboxes ever made: [live, data, figures]
    adResult,   \* what the last execute_code call gave its caller
    adFailed,   \* which remote step failed inside that call ("none": none)
    adEnv,      \* what the remote side did during that call
    adStaged,   \* the files that call was given, the data files its code
                \* found, and the paths that were there before and were
                \* written again
    \* ---- one CodeInterpreterFunctionTool and its sandbox (code_interpreter.py) ----
    toolSb,     \* self.code_interpreter: "unset", "live" or "killed"
    toolKills,  \* kill requests sent for that sandbox
    toolRaised, \* the call of the tool that raised last ("none": none)
    toolOut,    \* what the last call() returned (<<>>: nothing yet)
    \* ---- a caller of the ConversationManager, one call at a time ----
    called,     \* the last call: operation, id, object returned, what it saw
    pendingMem, \* per id: cleared, and get_memory not called since
    pendingConv,\* per id: cleared, and get_conversation not called since
    appended,   \* per id: the turns and the messages the caller has appended
    stored,     \* the caller's messages_dict: what serialize_memory returned last
    original    \* the history that call serialized

loopVars == <<lmsgs, lpc, lcause, rounds, acts, sbRuns>>

storeVars == <<sessions, conversations, memHeap, convHeap>>

threadVars == <<pc, req, mem, conv, work, cause, resp, liveSb, tool, ranIn, nreq>>

toolVars == <<toolSb, toolKills, toolRaised, toolOut>>

adapterVars == <<adSandbox, remote, adResult, adFailed, adEnv, adStaged, toolVars>>

serialVars == <<stored, original>>

callVars == <<called, pendingMem, pendingConv, appended, serialVars>>

vars == <<loopVars, storeVars, threadVars, adapterVars, callVars>>

\* ------------------------------------------------------------------ bounds
MaxRounds == 3      \* inference calls explored in one run of the loop
MaxCalls == 2       \* tool-call requests in one assistant turn

MaxSandboxes == 2   \* remote sandboxes one E2BCodeInterpreter provisions
MaxCloses == 2      \* close() calls on one CodeInterpreterFunctionTool
MaxReqs == 2        \* requests (and add_files calls) the server receives

\* Objects the manager's caller may have created, per table.
MaxObjects == 2

\* Messages in one memory's history, for the caller that appends.
MaxHistory == 1

\* Turns appended to one history, for the caller that only appends.
MaxTurns == 2

\* Messages the caller that serializes and loads has put into the histories.
MaxStored == 2

\* ------------------------------------------------- sets and start values
Threads == {"t1", "t2"}         \* request threads of the server

Sids == {"s1", "s2"}            \* session ids sent by clients

Prompts == {"p1"}         \* prompts sent by clients

NoReq == [kind |-> "none", sid |-> "none", prompt |-> "none", body |-> "none"]

NoResp == [status |-> 0, kind |-> "none", messages |-> <<>>]

\* The loop before workflow_app.invoke is called.
LoopIdle ==
    /\ lmsgs = <<>>
    /\ lpc = "idle"
    /\ lcause = "none"
    /\ rounds = 0
    /\ acts = 0
    /\ sbRuns = <<>>

\* ConversationManager.__init__: both tables empty.
StoreStart ==
    /\ sessions = [s \in Sids |-> 0]
    /\ conversations = [s \in Sids |-> 0]
    /\ memHeap = <<>>
    /\ convHeap = <<>>

\* No request received yet.
ThreadsStart ==
    /\ pc = [t \in Threads |-> "idle"]
    /\ req = [t \in Threads |-> NoReq]
    /\ mem = [t \in Threads |-> 0]
    /\ conv = [t \in Threads |-> 0]
    /\ work = [t \in Threads |-> <<>>]
    /\ cause = [t \in Threads |-> "none"]
    /\ resp = [t \in Threads |-> NoResp]
    /\ liveSb = [t \in Threads |-> 0]
    /\ tool = [t \in Threads |-> "none"]
    /\ ranIn = [t \in Threads |-> "none"]
    /\ nreq = 0

NoResult ==
    [propagated |-> FALSE, success |-> FALSE, stdout |-> "", stderr |-> <<>>,
     artifacts |-> <<>>, returned |-> FALSE]

\* E2BCodeInterpreter.__init__: self.sandbox = None; nothing remote yet.
NoCall == [op |-> "none", sid |-> "none", ret |-> 0, after |-> "no", noop |-> FALSE]

\* No call made yet.
CallStart ==
    /\ called = NoCall
    /\ pendingMem = [s \in Sids |-> "no"]
    /\ pendingConv = [s \in Sids |-> "no"]
    /\ appended = [s \in Sids |-> [turns |-> <<>>, messages |-> <<>>]]
    /\ stored = <<>>
    /\ original = <<>>

NoEnv == [fail |-> "none", exit_code |-> 0, writes |-> <<>>]

NoStaging == [files |-> <<>>, visible |-> {}, overwrote |-> {}]

AdapterStart ==
    /\ adSandbox = 0
    /\ remote = <<>>
    /\ adResult = NoResult
    /\ adFailed = "none"
    /\ adEnv = NoEnv
    /\ adStaged = NoStaging
    /\ toolSb = "unset"
    /\ toolKills = 0
    /\ toolRaised = "none"
    /\ toolOut = <<>>

\* ---------------------------------------------------------------- messages
END == "END"

SystemMessage(c) == [type |-> "system", content |-> c]

HumanMessage(c) == [type |-> "human", content |-> c]

AIMessage(c, calls) == [type |-> "ai", content |-> c, tool_calls |-> calls]

RichToolMessage(c, id, raw) ==
    [type |-> "tool", content |-> c, tool_call_id |-> id, raw_output |-> raw]

SYSTEM_MESSAGE == "system-prompt"

tool_name == "code_interpreter"

\* create_workflow: tool_map = {tool.name: tool for tool in [code_interpreter_tool]}
tool_map == {tool_name}

\* The tool names the inference service puts in a request: the tools that
\* llm.bind_tools(tools) advertised to it.
ToolNames == tool_map

\* What the sandbox's run_code gives back for one cell: results, logs, error.
\* "none" is Python's None; the result of the first cell is a plot, a result
\* value with a PNG image.
Executions ==
    { [results |-> <<"image/png">>, stdout |-> "4", stderr |-> "", error |-> "none"],
      [results |-> <<>>, stdout |-> "", stderr |-> "trace", error |-> "NameError"] }

\* run_code either returns an execution or raises (sandbox unreachable, timeout).
RunCodeOutcomes ==
    { [raised |-> FALSE, execution |-> e] : e \in Executions }
    \cup { [raised |-> TRUE, execution |-> "none"] }

\* CodeInterpreterFunctionTool.call: the dict built from the execution.
call(execution) ==
    [results |-> execution.results, stdout |-> execution.stdout,
     stderr |-> execution.stderr, error |-> execution.error]

\* json.dumps({k: v for k, v in output.items() if k not in ("results")}):
\* the output without its "results" entry.
JsonDumps(output) == [k \in (DOMAIN output) \ {"results"} |-> output[k]]

format_to_tool_message(tool_call_id, output) ==
    RichToolMessage(JsonDumps(output), tool_call_id, output)

should_continue(messages) ==
    LET last_message == messages[Len(messages)]
    IN  IF last_message.tool_calls = <<>> THEN END ELSE "action"

\* ------------------------------------------------------------ execute_tools
\* execute_tools walks messages[-1].tool_calls front to back.  `outs` gives,
\* per position, what run_code does if that call is reached.  The result is
\* the list returned, the calls that reached the sandbox, and how it ended:
\* "ok", "lookup" (tool_map[name] raised KeyError) or "dispatch" (tool.invoke
\* raised); when it raised there is no returned list.
RECURSIVE ExecLoop(_, _, _, _, _)
ExecLoop(calls, outs, i, tool_messages, ran) ==
    IF i > Len(calls)
    THEN [end |-> "ok", tool_messages |-> tool_messages, ran |-> ran]
    ELSE IF calls[i].name \notin tool_map
    THEN [end |-> "lookup", tool_messages |-> <<>>, ran |-> ran]
    ELSE IF outs[i].raised
    THEN [end |-> "dispatch", tool_messages |-> <<>>, ran |-> Append(ran, calls[i].id)]
    ELSE ExecLoop(calls, outs, i + 1,
                  Append(tool_messages,
                         format_to_tool_message(calls[i].id, call(outs[i].execution))),
                  Append(ran, calls[i].id))

\* A variant that starts the walk at the second request.
execute_tools_skips_first(messages, outs) ==
    ExecLoop(messages[Len(messages)].tool_calls, outs, 2, <<>>, <<>>)

execute_tools(messages, outs) ==
    ExecLoop(messages[Len(messages)].tool_calls, outs, 1, <<>>, <<>>)

\* ------------------------------------------------- the inference service
\* A black box: one assistant turn with 0..MaxCalls tool-call requests.  Call
\* identifiers are unique: round r, position i gets r * 10 + i.
SeqsUpTo(S, n) == UNION { [1..k -> S] : k \in 0..n }

CallsOf(names, r) ==
    [i \in 1..Len(names) |->
        [name |-> names[i], id |-> r * 10 + i, args |-> [code |-> "cell"]]]

LLMResponses(r) ==
    { AIMessage("text", CallsOf(names, r)) : names \in SeqsUpTo(ToolNames, MaxCalls) }

\* ---------------------------------------------------------- the loop nodes
\* Inputs of workflow_app.invoke, as process_with_memory builds them.
LoopInputs ==
    { <<SystemMessage(SYSTEM_MESSAGE), HumanMessage("p1")>>,
      <<SystemMessage(SYSTEM_MESSAGE), HumanMessage("p1"), AIMessage("text", <<>>),
        HumanMessage("p2")>> }

LoopStart ==
    /\ lmsgs \in LoopInputs
    /\ lpc = "agent"            \* workflow.set_entry_point("agent")
    /\ lcause = "none"
    /\ rounds = 0
    /\ acts = 0
    /\ sbRuns = <<>>

\* node "agent": llm.bind_tools(tools) answers; then the conditional edge.
AgentAnswers ==
    /\ lpc = "agent"
    /\ rounds < MaxRounds
    /\ \E m \in LLMResponses(rounds + 1) :
         /\ lmsgs' = Append(lmsgs, m)
         /\ lpc' = should_continue(lmsgs')
    /\ rounds' = rounds + 1
    /\ UNCHANGED <<lcause, acts, sbRuns>>
    /\ UNCHANGED <<storeVars, threadVars, adapterVars, callVars>>

\* node "agent": the call to the inference service raises.
AgentRaises ==
    /\ lpc = "agent"
    /\ rounds < MaxRounds
    /\ rounds' = rounds + 1
    /\ lpc' = "raised"
    /\ lcause' = "llm"
    /\ UNCHANGED <<lmsgs, acts, sbRuns>>
    /\ UNCHANGED <<storeVars, threadVars, adapterVars, callVars>>

\* node "action": execute_tools returns; edge "action" -> "agent".
ActionReturns ==
    /\ lpc = "action"
    /\ \E outs \in [1..Len(lmsgs[Len(lmsgs)].tool_calls) -> RunCodeOutcomes] :
         LET r == execute_tools(lmsgs, outs)
         IN  /\ r.end = "ok"
             /\ lmsgs' = lmsgs \o r.tool_messages
             /\ sbRuns' = sbRuns \o r.ran
    /\ lpc' = "agent"
    /\ acts' = acts + 1
    /\ UNCHANGED <<lcause, rounds>>
    /\ UNCHANGED <<storeVars, threadVars, adapterVars, callVars>>

\* node "action": execute_tools raises; nothing in workflow.py catches it.
ActionRaises ==
    /\ lpc = "action"
    /\ \E outs \in [1..Len(lmsgs[Len(lmsgs)].tool_calls) -> RunCodeOutcomes] :
         LET r == execute_tools(lmsgs, outs)
         IN  /\ r.end # "ok"
             /\ lcause' = r.end
             /\ sbRuns' = sbRuns \o r.ran
    /\ lpc' = "raised"
    /\ UNCHANGED <<lmsgs, rounds, acts>>
    /\ UNCHANGED <<storeVars, threadVars, adapterVars, callVars>>

LoopNext == AgentAnswers \/ AgentRaises \/ ActionReturns \/ ActionRaises

LoopInit == LoopStart /\ StoreStart /\ ThreadsStart /\ AdapterStart /\ CallStart

SpecLoop == LoopInit /\ [][LoopNext]_vars

\* ------------------------------------------------- properties of the loop
IsToolTurn(m) == m.type = "ai" /\ m.tool_calls # <<>>

IsPlainAnswer(m) == m.type = "ai" /\ m.tool_calls = <<>>

Last(s) == s[Len(s)]

\* Number of assistant turns of msgs that carry tool-call requests.
ToolTurns(msgs) == Cardinality({ j \in 1..Len(msgs) : IsToolTurn(msgs[j]) })

RECURSIVE RequestedIds(_)
\* The call identifiers requested in msgs, in the order requested.
RequestedIds(msgs) ==
    IF msgs = <<>> THEN <<>>
    ELSE LET m == Head(msgs)
         IN  (IF IsToolTurn(m) THEN [i \in 1..Len(m.tool_calls) |-> m.tool_calls[i].id]
              ELSE <<>>) \o RequestedIds(Tail(msgs))

IsPrefix(a, b) == Len(a) <= Len(b) /\ a = SubSeq(b, 1, Len(a))

\* C1 (as claimed): the loop starts at the model call; an assistant turn with
\* tool-call requests is followed by the action step and then by another
\* model call; an assistant turn with none ends the loop, and nothing
\* follows the end.
C1_LoopShapeClaimed ==
    /\ lpc = "agent" \/ rounds > 0
    /\ [][ /\ (lpc = "agent" /\ lmsgs' # lmsgs) =>
                 lpc' = (IF IsToolTurn(Last(lmsgs')) THEN "action" ELSE END)
           /\ lpc = "action" => lpc' = "agent"
           /\ lpc # END ]_vars

\* C2 (as claimed): when the inference service answers every round (k
\* tool-call turns, then a plain answer), the loop performs exactly k action
\* steps and ends right after round k+1 with the plain answer last.
C2_ScriptedRunClaimed ==
    (lpc \in {END, "raised"} /\ lcause # "llm") =>
        /\ lpc = END
        /\ acts = ToolTurns(lmsgs)
        /\ rounds = acts + 1
        /\ IsPlainAnswer(Last(lmsgs))

\* C3: whenever execute_tools has returned for an assistant turn with
\* requests r1..rn, the n messages after that turn are tool results, the
\* i-th carrying the identifier of ri, and nothing else follows before the
\* next assistant turn; the sandbox has received the requests in the order
\* requested, each once.
C3_DispatchInOrder ==
    /\ \A j \in 1..Len(lmsgs) :
         (IsToolTurn(lmsgs[j]) /\ j < Len(lmsgs)) =>
            LET n == Len(lmsgs[j].tool_calls)
            IN  /\ Len(lmsgs) >= j + n
                /\ \A i \in 1..n :
                     /\ lmsgs[j + i].type = "tool"
                     /\ lmsgs[j + i].tool_call_id = lmsgs[j].tool_calls[i].id
                /\ (Len(lmsgs) > j + n => lmsgs[j + n + 1].type = "ai")
    /\ IsPrefix(sbRuns, RequestedIds(lmsgs))
    /\ lpc \in {"agent", END} => sbRuns = RequestedIds(lmsgs)

C3_Witness ==
    /\ lpc = "agent"
    /\ Len(lmsgs) >= 3
    /\ IsToolTurn(lmsgs[Len(lmsgs) - 2])
    /\ Len(lmsgs[Len(lmsgs) - 2].tool_calls) = 2
    /\ Last(lmsgs).type = "tool"
    /\ Len(sbRuns) >= 2

\* C4 (as claimed): a failure inside tool dispatch does not end the loop.
C4_DispatchFailureNotFatalClaimed ==
    ~(lpc = "raised" /\ lcause = "dispatch")

\* C18 (as claimed): the loop ends within a bounded number of rounds whatever
\* the inference service answers: once MaxRounds calls to the service have
\* been made, the loop has reached END or has raised.
C18_EndsWithinBoundClaimed ==
    rounds >= MaxRounds => lpc \in {END, "raised"}


\* ===================================================== the loop, run whole
\* workflow_app.invoke(all_messages) as one call: the nodes above, run until
\* END or an exception.  A script says, round by round, what the inference
\* service and the sandbox do.
ScriptOutcomes == { o \in RunCodeOutcomes : o.raised \/ o.execution.error = "none" }

ScriptRounds ==
    { [raises |-> TRUE, names |-> <<>>, outs |-> <<>>] }
    \cup { [raises |-> FALSE, names |-> names, outs |-> outs] :
             names \in SeqsUpTo(ToolNames, 1), outs \in SeqsUpTo(ScriptOutcomes, 1) }

RECURSIVE RunLoop(_, _, _)
RunLoop(msgs, script, r) ==
    IF r > Len(script) THEN [end |-> "open", messages |-> msgs]
    ELSE IF script[r].raises THEN [end |-> "llm", messages |-> msgs]
    ELSE LET answered == Append(msgs, AIMessage("text", CallsOf(script[r].names, r)))
         IN  IF should_continue(answered) = END
             THEN [end |-> "ok", messages |-> answered]
             ELSE LET x == execute_tools(answered, script[r].outs)
                  IN  IF x.end # "ok"
                      THEN [end |-> x.end, messages |-> answered]
                      ELSE RunLoop(answered \o x.tool_messages, script, r + 1)

\* The scripts of at most two rounds in which every requested call has an
\* outcome.
Scripts ==
    { sc \in SeqsUpTo(ScriptRounds, 2) :
        \A r \in 1..Len(sc) : Len(sc[r].outs) = Len(sc[r].names) }

\* ============================================================ the Flask app
\* A Python dict standing for a message, as process_message_with_files and
\* process_messages build them.
Dict(type, content) == [type |-> type, content |-> content, is_dict |-> TRUE]

IsDict(m) == "is_dict" \in DOMAIN m

\* app.py process_tool_output; extract_visualization_data returns None.
process_tool_output(output) ==
    [stdout |-> output.stdout, stderr |-> output.stderr, error |-> output.error,
     visualization |-> "none"]

HasRawOutput(m) == "raw_output" \in DOMAIN m

\* app.py process_messages.
process_messages(messages) ==
    IF \A i \in 1..Len(messages) : IsDict(messages[i])
    THEN messages
    ELSE [i \in 1..Len(messages) |->
            IF HasRawOutput(messages[i])
            THEN [type |-> messages[i].type, content |-> messages[i].content,
                  enhanced_output |-> process_tool_output(messages[i].raw_output)]
            ELSE [type |-> messages[i].type, content |-> messages[i].content]]

\* WorkflowManager.get_code_interpreter: workflow.py binds the name
\* E2BCodeInterpreter only inside execute_tools (line 33), so line 90 raises
\* NameError before any sandbox is made.
get_code_interpreter == "NameError: E2BCodeInterpreter"

\* WorkflowManager.process_message: the canned reply.
process_message == <<Dict("ai", "no files to analyze")>>

\* WorkflowManager.process_message_with_files(message, conversation): with
\* files, get_code_interpreter raises at line 113 and the handler at line 208
\* turns the exception into an assistant message; the conversation is not
\* touched and neither the inference service nor a sandbox is reached.
process_message_with_files(message, conversation) ==
    IF conversation.files = <<>>
    THEN process_message
    ELSE <<Dict("ai", <<"Error processing file analysis", get_code_interpreter>>)>>

\* app.py process_with_files.
process_with_files(conversation, prompt) ==
    IF conversation.files # <<>>
    THEN process_message_with_files(prompt, conversation)
    ELSE <<Dict("ai", "no uploaded files")>>

\* Conversation.add_files: extend files, then add_message of a system note.
add_files(conversation, file_data) ==
    [files |-> conversation.files \o file_data,
     messages |-> Append(conversation.messages,
                         [role |-> "system",
                          content |-> [i \in 1..Len(file_data) |-> file_data[i].name]])]

\* Conversation.__init__
NewConversation == [files |-> <<>>, messages |-> <<>>]

\* ConversationBufferMemory(): an empty message list.
NewMemory == <<>>

FileData == { <<[id |-> "u1.csv", name |-> "data.csv", type |-> "csv"]>> }

\* CodeInterpreterFunctionTool.close: kill the sandbox.
close_leaves_sandbox(live, t) == live

close(live, t) == [live EXCEPT ![t] = @ - 1]

\* run_agent, `except Exception as e`: jsonify({"error": str(e)}), 500.
except_as_assistant_message(e) ==
    [status |-> 200, kind |-> "messages", messages |-> <<Dict("ai", e)>>]

run_agent_except(e) == [status |-> 500, kind |-> "error", messages |-> <<>>]

\* An exception that leaves the view function: Flask's own 500 page.
Flask500 == [status |-> 500, kind |-> "html", messages |-> <<>>]

Sid(t) == req[t].sid

\* run_agent, line 60 and 71: every request constructs a tool of its own and
\* builds its workflow around that one.
module_level_code_interpreter(t) == "t1"

local_code_interpreter(t) == t

\* A run of the loop in which a tool call reached the sandbox: a tool
\* message came back, or the dispatch raised.
Ran(r) ==
    \/ r.end = "dispatch"
    \/ \E i \in 1..Len(r.messages) : r.messages[i].type = "tool"

\* ---- receiving a request
RunStart(t) ==
    /\ pc[t] \in {"idle", "done"}
    /\ nreq < MaxReqs
    /\ \E s \in Sids, p \in Prompts :
         req' = [req EXCEPT ![t] = [kind |-> "run", sid |-> s, prompt |-> p, body |-> "{prompt, session_id}"]]
    /\ nreq' = nreq + 1
    /\ pc' = [pc EXCEPT ![t] = "gm_check"]
    /\ mem' = [mem EXCEPT ![t] = 0]
    /\ conv' = [conv EXCEPT ![t] = 0]
    /\ work' = [work EXCEPT ![t] = <<>>]
    /\ cause' = [cause EXCEPT ![t] = "none"]
    /\ resp' = [resp EXCEPT ![t] = NoResp]
    /\ UNCHANGED <<liveSb, tool, ranIn, storeVars, loopVars, adapterVars, callVars>>

\* The JSON bodies of /run requests that have no prompt field: no body
\* (get_json gives None), an object without the key, and JSON values that are
\* not objects.
BodiesWithoutPrompt == {"null", "{session_id}", "[prompt]", "[other]"}

\* `not data`: None and the empty containers are falsy.
Falsy(data) == data = "null"

\* `"prompt" in data`: key lookup on a dict, membership on a list.
Contains(data, key) ==
    CASE data = "null" -> FALSE
      [] data = "{session_id}" -> key = "session_id"
      [] data = "[prompt]" -> key = "prompt"
      [] data = "[other]" -> key = "other"
      [] OTHER -> key \in {"prompt", "session_id"}

\* `data["prompt"]`: a list takes integer indices only.
IsObject(data) == data \notin {"null", "[prompt]", "[other]"}

\* run_agent, line 49 as written.
missing_prompt(data) == Falsy(data) \/ ~Contains(data, "prompt")

\* run_agent: no JSON body or no "prompt" in it.
RunNoPrompt(t) ==
    /\ pc[t] \in {"idle", "done"}
    /\ nreq < MaxReqs
    /\ \E data \in BodiesWithoutPrompt :
         /\ missing_prompt(data)
         /\ req' = [req EXCEPT ![t] = [kind |-> "run", sid |-> "none", prompt |-> "none",
                                       body |-> data]]
    /\ nreq' = nreq + 1
    /\ pc' = [pc EXCEPT ![t] = "done"]
    /\ mem' = [mem EXCEPT ![t] = 0]
    /\ conv' = [conv EXCEPT ![t] = 0]
    /\ work' = [work EXCEPT ![t] = <<>>]
    /\ cause' = [cause EXCEPT ![t] = "none"]
    /\ resp' = [resp EXCEPT ![t] = [status |-> 400, kind |-> "error", messages |-> <<>>]]
    /\ UNCHANGED <<liveSb, tool, ranIn, storeVars, loopVars, adapterVars, callVars>>

\* run_agent: the body passes line 49 but is not an object, and
\* `prompt = data["prompt"]` (line 52) raises TypeError outside the try.
RunBodyRaises(t) ==
    /\ pc[t] \in {"idle", "done"}
    /\ nreq < MaxReqs
    /\ \E data \in BodiesWithoutPrompt :
         /\ ~missing_prompt(data)
         /\ ~IsObject(data)
         /\ req' = [req EXCEPT ![t] = [kind |-> "run", sid |-> "none", prompt |-> "none",
                                       body |-> data]]
    /\ nreq' = nreq + 1
    /\ pc' = [pc EXCEPT ![t] = "done"]
    /\ mem' = [mem EXCEPT ![t] = 0]
    /\ conv' = [conv EXCEPT ![t] = 0]
    /\ work' = [work EXCEPT ![t] = <<>>]
    /\ cause' = [cause EXCEPT ![t] = "TypeError"]
    /\ resp' = [resp EXCEPT ![t] = Flask500]
    /\ UNCHANGED <<liveSb, tool, ranIn, storeVars, loopVars, adapterVars, callVars>>

ClearStart(t) ==
    /\ pc[t] \in {"idle", "done"}
    /\ nreq < MaxReqs
    /\ \E s \in Sids :
         req' = [req EXCEPT ![t] = [kind |-> "clear", sid |-> s, prompt |-> "none", body |-> "{session_id}"]]
    /\ nreq' = nreq + 1
    /\ pc' = [pc EXCEPT ![t] = "cl_mem_check"]
    /\ mem' = [mem EXCEPT ![t] = 0]
    /\ conv' = [conv EXCEPT ![t] = 0]
    /\ work' = [work EXCEPT ![t] = <<>>]
    /\ cause' = [cause EXCEPT ![t] = "none"]
    /\ resp' = [resp EXCEPT ![t] = NoResp]
    /\ UNCHANGED <<liveSb, tool, ranIn, storeVars, loopVars, adapterVars, callVars>>

\* ---- ConversationManager.get_memory, statement by statement
\* `if session_id not in self.sessions:`
GmCheck(t) ==
    /\ pc[t] = "gm_check"
    /\ pc' = [pc EXCEPT ![t] = IF sessions[Sid(t)] = 0 THEN "gm_create" ELSE "gm_return"]
    /\ UNCHANGED <<req, mem, conv, work, cause, resp, liveSb, nreq, tool, ranIn>>
    /\ UNCHANGED <<storeVars, loopVars, adapterVars, callVars>>

\* `self.sessions[session_id] = ConversationBufferMemory(...)`
GmCreate(t) ==
    /\ pc[t] = "gm_create"
    /\ memHeap' = Append(memHeap, NewMemory)
    /\ sessions' = [sessions EXCEPT ![Sid(t)] = Len(memHeap) + 1]
    /\ pc' = [pc EXCEPT ![t] = "gm_return"]
    /\ UNCHANGED <<req, mem, conv, work, cause, resp, liveSb, nreq, tool, ranIn>>
    /\ UNCHANGED <<conversations, convHeap, loopVars, adapterVars, callVars>>

\* `return self.sessions[session_id]`; KeyError if the key is gone by now.
\* get_memory is called outside run_agent's try.
GmReturn(t) ==
    /\ pc[t] = "gm_return"
    /\ IF sessions[Sid(t)] = 0
       THEN /\ pc' = [pc EXCEPT ![t] = "done"]
            /\ cause' = [cause EXCEPT ![t] = "KeyError"]
            /\ resp' = [resp EXCEPT ![t] = Flask500]
            /\ UNCHANGED mem
       ELSE /\ pc' = [pc EXCEPT ![t] = "gc_check"]
            /\ mem' = [mem EXCEPT ![t] = sessions[Sid(t)]]
            /\ UNCHANGED <<cause, resp>>
    /\ UNCHANGED <<req, conv, work, liveSb, nreq, tool, ranIn>>
    /\ UNCHANGED <<storeVars, loopVars, adapterVars, callVars>>

\* ---- ConversationManager.get_conversation, statement by statement
GcCheck(t) ==
    /\ pc[t] = "gc_check"
    /\ pc' = [pc EXCEPT ![t] =
                IF conversations[Sid(t)] = 0 THEN "gc_create" ELSE "gc_return"]
    /\ UNCHANGED <<req, mem, conv, work, cause, resp, liveSb, nreq, tool, ranIn>>
    /\ UNCHANGED <<storeVars, loopVars, adapterVars, callVars>>

GcCreate(t) ==
    /\ pc[t] = "gc_create"
    /\ convHeap' = Append(convHeap, NewConversation)
    /\ conversations' = [conversations EXCEPT ![Sid(t)] = Len(convHeap) + 1]
    /\ pc' = [pc EXCEPT ![t] = "gc_return"]
    /\ UNCHANGED <<req, mem, conv, work, cause, resp, liveSb, nreq, tool, ranIn>>
    /\ UNCHANGED <<sessions, memHeap, loopVars, adapterVars, callVars>>

GcReturn(t) ==
    /\ pc[t] = "gc_return"
    /\ IF conversations[Sid(t)] = 0
       THEN /\ pc' = [pc EXCEPT ![t] = "done"]
            /\ cause' = [cause EXCEPT ![t] = "KeyError"]
            /\ resp' = [resp EXCEPT ![t] = Flask500]
            /\ mem' = [mem EXCEPT ![t] = 0]
            /\ UNCHANGED conv
       ELSE /\ pc' = [pc EXCEPT ![t] = "provision"]
            /\ conv' = [conv EXCEPT ![t] = conversations[Sid(t)]]
            /\ UNCHANGED <<mem, cause, resp>>
    /\ UNCHANGED <<req, work, liveSb, nreq, tool, ranIn>>
    /\ UNCHANGED <<storeVars, loopVars, adapterVars, callVars>>

\* ---- run_agent after the two lookups
\* `local_code_interpreter = CodeInterpreterFunctionTool()`: a sandbox is
\* provisioned.
ProvisionOk(t) ==
    /\ pc[t] = "provision"
    /\ liveSb' = [liveSb EXCEPT ![t] = @ + 1]
    /\ tool' = [tool EXCEPT ![t] = local_code_interpreter(t)]
    /\ pc' = [pc EXCEPT ![t] = "branch"]
    /\ UNCHANGED <<req, mem, conv, work, cause, resp, nreq, ranIn>>
    /\ UNCHANGED <<storeVars, loopVars, adapterVars, callVars>>

\* The constructor raises (E2B_API_KEY not set, or the sandbox service
\* unreachable); it is called outside the try.
ProvisionFails(t) ==
    /\ pc[t] = "provision"
    /\ pc' = [pc EXCEPT ![t] = "done"]
    /\ cause' = [cause EXCEPT ![t] = "provision"]
    /\ resp' = [resp EXCEPT ![t] = Flask500]
    /\ mem' = [mem EXCEPT ![t] = 0]
    /\ conv' = [conv EXCEPT ![t] = 0]
    /\ UNCHANGED <<req, work, liveSb, nreq, tool, ranIn>>
    /\ UNCHANGED <<storeVars, loopVars, adapterVars, callVars>>

\* `if hasattr(conversation, 'files') and conversation.files:` taken:
\* WorkflowManager(llm_client), asyncio.run(process_with_files(...)).
BranchFiles(t) ==
    /\ pc[t] = "branch"
    /\ convHeap[conv[t]].files # <<>>
    /\ work' = [work EXCEPT ![t] = process_with_files(convHeap[conv[t]], req[t].prompt)]
    /\ pc' = [pc EXCEPT ![t] = "finish"]
    /\ UNCHANGED <<req, mem, conv, cause, resp, liveSb, nreq, tool, ranIn>>
    /\ UNCHANGED <<storeVars, loopVars, adapterVars, callVars>>

\* else: create_workflow, then process_with_memory up to the invoke:
\* all_messages = [system] + memory.chat_memory.messages + [human].
BranchLoop(t) ==
    /\ pc[t] = "branch"
    /\ convHeap[conv[t]].files = <<>>
    /\ work' = [work EXCEPT ![t] =
                  <<SystemMessage(SYSTEM_MESSAGE)>> \o memHeap[mem[t]]
                  \o <<HumanMessage(req[t].prompt)>>]
    /\ pc' = [pc EXCEPT ![t] = "invoke"]
    /\ UNCHANGED <<req, mem, conv, cause, resp, liveSb, nreq, tool, ranIn>>
    /\ UNCHANGED <<storeVars, loopVars, adapterVars, callVars>>

\* `result = workflow_app.invoke(all_messages)` returns.
InvokeReturns(t) ==
    /\ pc[t] = "invoke"
    /\ \E sc \in Scripts :
         LET r == RunLoop(work[t], sc, 1)
         IN  /\ r.end = "ok"
             /\ work' = [work EXCEPT ![t] = r.messages]
             /\ ranIn' = [ranIn EXCEPT ![t] = IF Ran(r) THEN tool[t] ELSE "none"]
    /\ pc' = [pc EXCEPT ![t] = "save"]
    /\ UNCHANGED <<req, mem, conv, cause, resp, liveSb, nreq, tool>>
    /\ UNCHANGED <<storeVars, loopVars, adapterVars, callVars>>

\* `workflow_app.invoke` raises: straight to run_agent's except clause.
InvokeRaises(t) ==
    /\ pc[t] = "invoke"
    /\ \E sc \in Scripts :
         LET r == RunLoop(work[t], sc, 1)
         IN  /\ r.end \in {"llm", "dispatch", "lookup"}
             /\ cause' = [cause EXCEPT ![t] = r.end]
             /\ ranIn' = [ranIn EXCEPT ![t] = IF Ran(r) THEN tool[t] ELSE "none"]
    /\ pc' = [pc EXCEPT ![t] = "finish"]
    /\ UNCHANGED <<req, mem, conv, work, resp, liveSb, nreq, tool>>
    /\ UNCHANGED <<storeVars, loopVars, adapterVars, callVars>>

\* process_with_memory's `for msg in result:` the human and ai messages of
\* the result, in order, as add_user_message and add_ai_message store them.
RECURSIVE Saved(_)
Saved(result) ==
    IF result = <<>> THEN <<>>
    ELSE LET msg == Head(result)
         IN  (IF msg.type = "human" THEN <<HumanMessage(msg.content)>>
              ELSE IF msg.type = "ai" THEN <<AIMessage(msg.content, <<>>)>>
              ELSE <<>>) \o Saved(Tail(result))

\* memory.chat_memory.add_user_message / add_ai_message: each memory object
\* has a message list of its own, and the messages go to the list of the
\* object they are called on.
add_messages_one_shared_list(heap, memory, msgs) ==
    [i \in DOMAIN heap |-> heap[i] \o msgs]

add_messages(heap, memory, msgs) == [heap EXCEPT ![memory] = @ \o msgs]

\* The save loop of process_with_memory: the messages are added to the memory
\* object the request holds, whatever the table says by now.  (The appends of
\* one loop are taken together.)
Save(t) ==
    /\ pc[t] = "save"
    /\ memHeap' = add_messages(memHeap, mem[t], Saved(work[t]))
    /\ pc' = [pc EXCEPT ![t] = "finish"]
    /\ UNCHANGED <<req, mem, conv, work, cause, resp, liveSb, nreq, tool, ranIn>>
    /\ UNCHANGED <<sessions, conversations, convHeap, loopVars, adapterVars, callVars>>

\* The end of run_agent: the response of the try or of the except clause,
\* then `finally: local_code_interpreter.close()`.  The function returns and
\* its locals (memory, conversation, the tool) are gone.
Finish(t) ==
    /\ pc[t] = "finish"
    /\ resp' = [resp EXCEPT ![t] =
                  IF cause[t] = "none"
                  THEN [status |-> 200, kind |-> "messages",
                        messages |-> process_messages(work[t])]
                  ELSE run_agent_except(cause[t])]
    /\ liveSb' = close(liveSb, t)
    /\ tool' = [tool EXCEPT ![t] = "none"]
    /\ ranIn' = [ranIn EXCEPT ![t] = "none"]
    /\ pc' = [pc EXCEPT ![t] = "done"]
    /\ work' = [work EXCEPT ![t] = <<>>]
    /\ mem' = [mem EXCEPT ![t] = 0]
    /\ conv' = [conv EXCEPT ![t] = 0]
    /\ UNCHANGED <<req, cause, nreq>>
    /\ UNCHANGED <<storeVars, loopVars, adapterVars, callVars>>

\* ---- clear_session: ConversationManager.clear_memory, statement by statement
ClMemCheck(t) ==
    /\ pc[t] = "cl_mem_check"
    /\ pc' = [pc EXCEPT ![t] =
                IF sessions[Sid(t)] # 0 THEN "cl_mem_del" ELSE "cl_conv_check"]
    /\ UNCHANGED <<req, mem, conv, work, cause, resp, liveSb, nreq, tool, ranIn>>
    /\ UNCHANGED <<storeVars, loopVars, adapterVars, callVars>>

\* `del self.sessions[session_id]`; KeyError if another clear got there first.
ClMemDel(t) ==
    /\ pc[t] = "cl_mem_del"
    /\ IF sessions[Sid(t)] = 0
       THEN /\ pc' = [pc EXCEPT ![t] = "done"]
            /\ cause' = [cause EXCEPT ![t] = "KeyError"]
            /\ resp' = [resp EXCEPT ![t] = Flask500]
            /\ UNCHANGED sessions
       ELSE /\ sessions' = [sessions EXCEPT ![Sid(t)] = 0]
            /\ pc' = [pc EXCEPT ![t] = "cl_conv_check"]
            /\ UNCHANGED <<cause, resp>>
    /\ UNCHANGED <<req, mem, conv, work, liveSb, nreq, tool, ranIn>>
    /\ UNCHANGED <<conversations, memHeap, convHeap, loopVars, adapterVars, callVars>>

ClConvCheck(t) ==
    /\ pc[t] = "cl_conv_check"
    /\ IF conversations[Sid(t)] # 0
       THEN /\ pc' = [pc EXCEPT ![t] = "cl_conv_del"]
            /\ UNCHANGED resp
       ELSE /\ pc' = [pc EXCEPT ![t] = "done"]
            /\ resp' = [resp EXCEPT ![t] =
                          [status |-> 200, kind |-> "success", messages |-> <<>>]]
    /\ UNCHANGED <<req, mem, conv, work, cause, liveSb, nreq, tool, ranIn>>
    /\ UNCHANGED <<storeVars, loopVars, adapterVars, callVars>>

ClConvDel(t) ==
    /\ pc[t] = "cl_conv_del"
    /\ IF conversations[Sid(t)] = 0
       THEN /\ cause' = [cause EXCEPT ![t] = "KeyError"]
            /\ resp' = [resp EXCEPT ![t] = Flask500]
            /\ UNCHANGED conversations
       ELSE /\ conversations' = [conversations EXCEPT ![Sid(t)] = 0]
            /\ resp' = [resp EXCEPT ![t] =
                          [status |-> 200, kind |-> "success", messages |-> <<>>]]
            /\ UNCHANGED cause
    /\ pc' = [pc EXCEPT ![t] = "done"]
    /\ UNCHANGED <<req, mem, conv, work, liveSb, nreq, tool, ranIn>>
    /\ UNCHANGED <<sessions, memHeap, convHeap, loopVars, adapterVars, callVars>>

\* ---- upload_file (/upload)
\* `hasattr(request, 'conversation') and request.conversation` (line 130):
\* nothing in the app gives Flask's request object such an attribute, so the
\* handler has no Conversation to add the files to (0: none).
request_conversation == 0

\* upload_file for a request with allowed files: the files are saved under
\* unique names, their metadata is collected in file_data, line 130 decides
\* whether add_files is called, and the response says success with file_data.
Upload(t) ==
    /\ pc[t] \in {"idle", "done"}
    /\ nreq < MaxReqs
    /\ req' = [req EXCEPT ![t] = [kind |-> "upload", sid |-> "none", prompt |-> "none",
                                  body |-> "files"]]
    /\ nreq' = nreq + 1
    /\ \E fd \in FileData :
         convHeap' = IF request_conversation = 0 THEN convHeap
                     ELSE [convHeap EXCEPT ![request_conversation] = add_files(@, fd)]
    /\ pc' = [pc EXCEPT ![t] = "done"]
    /\ mem' = [mem EXCEPT ![t] = 0]
    /\ conv' = [conv EXCEPT ![t] = 0]
    /\ work' = [work EXCEPT ![t] = <<>>]
    /\ cause' = [cause EXCEPT ![t] = "none"]
    /\ resp' = [resp EXCEPT ![t] = [status |-> 200, kind |-> "uploaded", messages |-> <<>>]]
    /\ UNCHANGED <<liveSb, tool, ranIn>>
    /\ UNCHANGED <<sessions, conversations, memHeap, loopVars, adapterVars, callVars>>

\* ---- Conversation.add_files on a session's Conversation that has no files
\* yet.  The /upload handler never gets here (app.py:130 tests an attribute
\* that the request object does not have); a caller holding the manager does.
\* The call counts as one of the calls the server gets.
AddFiles ==
    /\ \E s \in Sids, fd \in FileData :
         /\ conversations[s] # 0
         /\ convHeap[conversations[s]].files = <<>>
         /\ convHeap' = [convHeap EXCEPT ![conversations[s]] = add_files(@, fd)]
    /\ nreq < MaxReqs
    /\ nreq' = nreq + 1
    /\ UNCHANGED <<pc, req, mem, conv, work, cause, resp, liveSb, tool, ranIn>>
    /\ UNCHANGED <<sessions, conversations, memHeap, loopVars, adapterVars, callVars>>

Next ==
    \/ \E t \in Threads :
         \/ RunStart(t) \/ RunNoPrompt(t) \/ RunBodyRaises(t) \/ ClearStart(t)
         \/ GmCheck(t) \/ GmCreate(t) \/ GmReturn(t)
         \/ GcCheck(t) \/ GcCreate(t) \/ GcReturn(t)
         \/ ProvisionOk(t) \/ ProvisionFails(t)
         \/ BranchFiles(t) \/ BranchLoop(t)
         \/ InvokeReturns(t) \/ InvokeRaises(t)
         \/ Save(t) \/ Finish(t)
         \/ ClMemCheck(t) \/ ClMemDel(t) \/ ClConvCheck(t) \/ ClConvDel(t)
         \/ Upload(t)
    \/ AddFiles

Init == LoopIdle /\ StoreStart /\ ThreadsStart /\ AdapterStart /\ CallStart

Spec == Init /\ [][Next]_vars


\* --------------------------------------------------- properties of the app
\* C5: when a /run request has ended, on any path, no sandbox provisioned
\* by it is still alive.
C5_SandboxReleased ==
    \A t \in Threads : pc[t] \in {"idle", "done"} => liveSb[t] = 0

C5_Witness ==
    \E t \in Threads :
        /\ pc[t] = "done"
        /\ req[t].kind = "run"
        /\ cause[t] \in {"llm", "dispatch"}
        /\ resp[t].status = 500
        /\ liveSb[t] = 0

C8_NoEntryDiscardedClaimed ==
    [][\A s \in Sids :
          /\ (sessions[s] # 0 /\ sessions'[s] # 0) => sessions'[s] = sessions[s]
          /\ (conversations[s] # 0 /\ conversations'[s] # 0) =>
                conversations'[s] = conversations[s]]_vars

\* C9 (as claimed): the mutations of a session's entry are serialized, so
\* when a /run request appends its turns, the history it appends to is the
\* table's entry for its session: no turn goes to an entry that a concurrent
\* clear has removed.
C9_AppendsReachTheTableClaimed ==
    [][\A t \in Threads :
          (pc[t] = "save" /\ pc'[t] = "finish") => sessions[Sid(t)] = mem[t]]_vars

\* Where a /run or /clear request is before run_agent constructs its tool.
BeforeProvision ==
    {"gm_check", "gm_create", "gm_return", "gc_check", "gc_create", "gc_return",
     "provision", "cl_mem_check", "cl_mem_del", "cl_conv_check", "cl_conv_del"}

\* C19: a request runs code only in the sandbox of the tool that it has
\* constructed itself: the tool it works with is its own, no two requests
\* work with the same tool, the sandbox is alive while its code runs, and a
\* request holds no live sandbox before it has constructed its tool; also
\* when two requests run at once, on one session id or on two.
C19_SandboxNotShared ==
    /\ \A t \in Threads :
          /\ tool[t] \in {"none", t}
          /\ ranIn[t] # "none" => ranIn[t] = t /\ liveSb[t] = 1
          /\ pc[t] \in BeforeProvision => liveSb[t] = 0 /\ tool[t] = "none"
    /\ \A t, u \in Threads : (t # u /\ tool[t] # "none") => tool[t] # tool[u]

\* Two requests for one session id have both run code, at the same time.
C19_Witness ==
    \E t, u \in Threads :
        /\ t # u
        /\ ranIn[t] = t
        /\ ranIn[u] = u
        /\ req[t].sid = req[u].sid

\* The result values of a tool output have an image among them.
HasImage(results) == \E i \in 1..Len(results) : results[i] = "image/png"

\* C20 (as claimed): in the result of a /run, a tool message whose raw output
\* has an image among its result values is post-processed into a turn whose
\* enhanced_output has a visualization that is not None.
C20_VisualizationSetClaimed ==
    \A t \in Threads :
        (pc[t] = "finish" /\ cause[t] = "none") =>
            \A i \in 1..Len(work[t]) :
                (HasRawOutput(work[t][i]) /\ HasImage(work[t][i].raw_output.results)) =>
                    process_messages(work[t])[i].enhanced_output.visualization # "none"

\* C17 (as claimed): a /run request that failed because no sandbox could be
\* provisioned has got the JSON error response, and the session store is as
\* it was before the request: when it was the first request the server got,
\* the store has no entry at all.
C17_ProvisioningFailureCleanClaimed ==
    \A t \in Threads :
        (pc[t] = "done" /\ cause[t] = "provision") =>
            /\ resp[t].kind = "error"
            /\ nreq = 1 => \A s \in Sids : sessions[s] = 0 /\ conversations[s] = 0

\* What the store holds for one session id: whether it has a history and a
\* Conversation, and their contents.
SessionView(s) ==
    [hasMemory |-> sessions[s] # 0,
     history |-> IF sessions[s] = 0 THEN <<>> ELSE memHeap[sessions[s]],
     hasConversation |-> conversations[s] # 0,
     files |-> IF conversations[s] = 0 THEN <<>> ELSE convHeap[conversations[s]].files,
     messages |-> IF conversations[s] = 0 THEN <<>>
                  ELSE convHeap[conversations[s]].messages]

\* C11: a step of a request for session A (a lookup or creation, the save of
\* its turns, a clear, any step of a whole /run) or an add_files on A leaves
\* what the store holds for every other session exactly as it was.
C11_SessionsIsolated ==
    [][\A s \in Sids :
          SessionView(s)' # SessionView(s) =>
             \/ \E t \in Threads : pc'[t] # pc[t] /\ req[t].sid = s
             \/ /\ pc' = pc
                /\ \A s2 \in Sids \ {s} : SessionView(s2)' = SessionView(s2)]_vars

\* One session has got the turns of a /run while the other exists and is
\* still empty.
C11_Witness ==
    \E t \in Threads :
        /\ pc[t] = "finish"
        /\ cause[t] = "none"
        /\ \E a, b \in Sids :
              /\ a # b
              /\ req[t].sid = a
              /\ SessionView(a).history # <<>>
              /\ SessionView(b).hasMemory
              /\ SessionView(b).history = <<>>

\* C22 (as claimed): a /run request whose body is absent or has no prompt
\* field has been answered with status 400 and an error object, and it has
\* made no session entry, provisioned no sandbox and called no inference
\* service.
C22_NoPromptIs400Claimed ==
    \A t \in Threads :
        (pc[t] = "done" /\ req[t].kind = "run" /\ req[t].body \in BodiesWithoutPrompt) =>
            /\ resp[t].status = 400
            /\ resp[t].kind = "error"
            /\ liveSb[t] = 0
            /\ nreq = 1 => \A s \in Sids : sessions[s] = 0 /\ conversations[s] = 0

\* The turns of the request in a loop result: the request's prompt is the
\* last human message of the list (the loop adds assistant and tool messages
\* only), and the turns are the messages from there on.
RECURSIVE ThisRequest(_)
ThisRequest(result) ==
    IF result = <<>> THEN <<>>
    ELSE IF Last(result).type = "human" THEN <<Last(result)>>
    ELSE Append(ThisRequest(SubSeq(result, 1, Len(result) - 1)), Last(result))

\* C23 (as claimed): when a /run request on the tool-loop path stores its
\* turns, the history becomes the history before followed by the turns of
\* this request (the prompt, then the assistant turns in the order produced),
\* each once; turns stored by earlier requests are not stored again.
C23_OnlyNewTurnsStoredClaimed ==
    [][\A t \in Threads :
          (pc[t] = "save" /\ pc'[t] = "finish") =>
              memHeap'[mem[t]] = memHeap[mem[t]] \o Saved(ThisRequest(work[t]))]_vars

\* ---- the file-aware path
\* What the inference service may answer on the file-aware path
\* (code_response["choices"][0]["message"]["content"]), as the pieces of the
\* text: prose, an opening fence, code, a closing fence.
FileReplies ==
    { <<"prose">>,
      <<"prose", "[fence python]", "code1", "[fence]", "prose">>,
      <<"[fence python]", "code1", "[fence]", "prose", "[fence python]", "code2", "[fence]">>,
      <<"prose", "[fence python]", "code1">> }

\* The first closing fence after position i (0: none).
RECURSIVE ClosingFence(_, _)
ClosingFence(content, i) ==
    IF i > Len(content) THEN 0
    ELSE IF content[i] = "[fence]" THEN i
    ELSE ClosingFence(content, i + 1)

\* re.findall of the fenced-python pattern in code_content, with DOTALL: the
\* texts between an opening fence and the next closing fence, left to right,
\* without overlap.
RECURSIVE FindBlocks(_, _)
FindBlocks(content, i) ==
    IF i > Len(content) THEN <<>>
    ELSE IF content[i] = "[fence python]" /\ ClosingFence(content, i + 1) # 0
         THEN <<SubSeq(content, i + 1, ClosingFence(content, i + 1) - 1)>>
              \o FindBlocks(content, ClosingFence(content, i + 1) + 1)
         ELSE FindBlocks(content, i + 1)

code_blocks(code_content) == FindBlocks(code_content, 1)

\* A request that took the file-aware branch and has its result.
OnFilePath(t) ==
    /\ pc[t] = "finish"
    /\ cause[t] = "none"
    /\ work[t] # <<>>
    /\ IsDict(work[t][1])

\* C24 (as claimed): the result of a request on the file-aware path comes
\* from an answer of the model: when the answer has no fenced code block, the
\* answer itself is the one message returned and it is the last message of
\* the session's Conversation; when it has one, the result is the analysis
\* result of an execution.
C24_FilePathAnswersClaimed ==
    \A t \in Threads :
        OnFilePath(t) =>
            \E reply \in FileReplies :
                IF code_blocks(reply) = <<>>
                THEN /\ work[t] = <<Dict("ai", reply)>>
                     /\ Last(convHeap[conv[t]].messages) =
                           [role |-> "assistant", content |-> reply]
                ELSE /\ Len(work[t]) = 1
                     /\ work[t][1].content[1] = "Analysis Results"

\* C26 (as claimed): when a /upload request has ended with success, the
\* metadata of its files is in the file list of a session, so that a later
\* /run for that session takes the file-aware branch.
C26_UploadReachesSessionClaimed ==
    \A t \in Threads :
        (pc[t] = "done" /\ req[t].kind = "upload" /\ resp[t].kind = "uploaded") =>
            \E s \in Sids :
                /\ conversations[s] # 0
                /\ convHeap[conversations[s]].files # <<>>

\* ================================================== the sandbox adapter
\* E2BCodeInterpreter, called by a client one operation at a time.  The remote
\* service is the environment: each call says which remote step fails, if
\* any, and what the submitted code does.

\* Files the submitted code may leave in /home/user/figures.
FigNames == { [stem |-> "fig", ext |-> "png"], [stem |-> "notes", ext |-> "txt"] }

\* file.name.endswith(('.png', '.jpg', '.jpeg', '.svg'))
IsImage(f) == f.ext \in {"png", "jpg", "jpeg", "svg"}

\* The `files` argument of execute_code: file_data dicts with path and name.
FileLists ==
    { <<>>,
      <<[path |-> "uploads/u1.csv", name |-> "data.csv"],
        [path |-> "uploads/u2.txt", name |-> "notes.txt"]>> }

\* The remote steps that can raise: Sandbox(), start()/pip install, a file
\* upload, start_python, the listing of the figures directory, a figure read.
Faults == {"none", "create", "start", "upload", "exec", "figures", "read"}

\* One environment per call: the fault, and for a call whose code does run,
\* its exit code and the figure files it writes.
ExecEnvs ==
    { e \in [fail : Faults, exit_code : {0, 1}, writes : SeqsUpTo(FigNames, 1)] :
        e.fail \in {"create", "start", "upload", "exec"} =>
            e.exit_code = 0 /\ e.writes = <<>> }

NewSandbox == [live |-> TRUE, data |-> {}, figures |-> <<>>]

\* self.sandbox.close(): the remote machine and its filesystem are gone.
KilledSandbox == [live |-> FALSE, data |-> {}, figures |-> <<>>]

\* E2BCodeInterpreter.initialize: self.sandbox = Sandbox(); start(); pip
\* install.  "create": Sandbox() raises and self.sandbox keeps its value;
\* "start": a later line raises, after self.sandbox was assigned.
initialize(sb, rem, fail) ==
    IF fail = "create"
    THEN [raised |-> TRUE, sandbox |-> sb, remote |-> rem]
    ELSE [raised |-> (fail = "start"), sandbox |-> Len(rem) + 1,
          remote |-> Append(rem, NewSandbox)]

\* sandbox_path = f"/home/user/data/{filename}"
sandbox_path(filename) == [dir |-> "/home/user/data", name |-> filename]

\* E2BCodeInterpreter.upload_file on a held sandbox: make_dir, read the local
\* file, write it remotely.
upload_file(sb, rem, file, fails) ==
    IF fails
    THEN [raised |-> TRUE, remote |-> rem, path |-> sandbox_path(file.name)]
    ELSE [raised |-> FALSE,
          remote |-> [rem EXCEPT ![sb].data = @ \cup {sandbox_path(file.name)}],
          path |-> sandbox_path(file.name)]

\* execute_code's `for file_data in files:`; an upload fault hits the last file.
UploadAll_stages_nothing(sb, rem, files, i, fail) == [raised |-> FALSE, remote |-> rem]

RECURSIVE UploadAll(_, _, _, _, _)
UploadAll(sb, rem, files, i, fail) ==
    IF i > Len(files) THEN [raised |-> FALSE, remote |-> rem]
    ELSE LET u == upload_file(sb, rem, files[i], fail = "upload" /\ i = Len(files))
         IN  IF u.raised THEN [raised |-> TRUE, remote |-> u.remote]
             ELSE UploadAll(sb, u.remote, files, i + 1, fail)

\* The figures directory after the code has written `writes` into it.
RECURSIVE WriteFigures(_, _)
WriteFigures(figs, writes) ==
    IF writes = <<>> THEN figs
    ELSE WriteFigures(IF \E i \in 1..Len(figs) : figs[i] = Head(writes)
                      THEN figs ELSE Append(figs, Head(writes)),
                      Tail(writes))

RECURSIVE Images(_)
\* The image files of a directory listing, in listing order.
Images(figs) ==
    IF figs = <<>> THEN <<>>
    ELSE (IF IsImage(Head(figs)) THEN <<Head(figs)>> ELSE <<>>) \o Images(Tail(figs))

\* One entry of output['artifacts'].
Artifact(f) == [type |-> "image", format |-> f.ext, data |-> <<"base64", f.stem>>]

\* execute_code, lines 213-220: the outer `except Exception`.
outer_except_reraises(e) ==
    [propagated |-> TRUE, success |-> FALSE, stdout |-> "", stderr |-> <<>>,
     artifacts |-> <<>>, returned |-> FALSE]

outer_except(e) ==
    [propagated |-> FALSE, success |-> FALSE, stdout |-> "",
     stderr |-> <<"Internal error", e>>, artifacts |-> <<>>, returned |-> TRUE]

\* execute_code, lines 169-176: start_python raised.
exec_except_reports_success(e) ==
    [propagated |-> FALSE, success |-> TRUE, stdout |-> "",
     stderr |-> <<"Execution error", e>>, artifacts |-> <<>>, returned |-> TRUE]

exec_except(e) ==
    [propagated |-> FALSE, success |-> FALSE, stdout |-> "",
     stderr |-> <<"Execution error", e>>, artifacts |-> <<>>, returned |-> TRUE]

\* execute_code, lines 186-210: collect the figures into the output.  A
\* "figures" fault raises before anything is read, a "read" fault at the last
\* image; both are caught and noted in stderr.
process_figures(output, figs, fail) ==
    LET imgs == Images(figs)
    IN  IF fail = "figures"
        THEN [output EXCEPT !.stderr = @ \o <<"Error processing figures">>]
        ELSE IF fail = "read" /\ imgs # <<>>
        THEN [output EXCEPT
                !.artifacts = [i \in 1..(Len(imgs) - 1) |-> Artifact(imgs[i])],
                !.stderr = @ \o <<"Error processing figures">>]
        ELSE [output EXCEPT !.artifacts = [i \in 1..Len(imgs) |-> Artifact(imgs[i])]]

\* E2BCodeInterpreter.execute_code(code, files) under env: what it gives its
\* caller, which remote step failed, the handle and remote state after, and
\* the data files in the sandbox at the moment start_python is called.
execute_code(sb, rem, files, env) ==
    LET ini == IF sb = 0 THEN initialize(sb, rem, env.fail)
               ELSE [raised |-> FALSE, sandbox |-> sb, remote |-> rem]
    IN  IF ini.raised
        THEN [ret |-> outer_except(env.fail), failed |-> env.fail,
              sandbox |-> ini.sandbox, remote |-> ini.remote, visible |-> {}]
        ELSE
        LET up == UploadAll(ini.sandbox, ini.remote, files, 1, env.fail)
        IN  IF up.raised
            THEN [ret |-> outer_except("upload"), failed |-> "upload",
                  sandbox |-> ini.sandbox, remote |-> up.remote, visible |-> {}]
            ELSE IF env.fail = "exec"
            THEN [ret |-> exec_except("exec"), failed |-> "exec",
                  sandbox |-> ini.sandbox, remote |-> up.remote,
                  visible |-> up.remote[ini.sandbox].data]
            ELSE
            LET ran == [up.remote EXCEPT ![ini.sandbox].figures =
                            WriteFigures(@, env.writes)]
                output == [propagated |-> FALSE,
                           success |-> (env.exit_code = 0),
                           stdout |-> "out",
                           stderr |-> IF env.exit_code = 0 THEN <<>> ELSE <<"trace">>,
                           artifacts |-> <<>>,
                           returned |-> TRUE]
                done == process_figures(output, ran[ini.sandbox].figures, env.fail)
            IN  [ret |-> done,
                 failed |-> IF done.stderr # output.stderr THEN env.fail ELSE "none",
                 sandbox |-> ini.sandbox, remote |-> ran,
                 visible |-> up.remote[ini.sandbox].data]

\* The remote paths of a list of files.
StagedPaths(files) == { sandbox_path(files[i].name) : i \in 1..Len(files) }

\* The data files in the sandbox behind a handle (none behind no handle).
DataIn(sb, rem) == IF sb = 0 THEN {} ELSE rem[sb].data

\* ---- the operations of the adapter
AdInitializeOk ==
    /\ Len(remote) < MaxSandboxes
    /\ LET r == initialize(adSandbox, remote, "none")
       IN  /\ adSandbox' = r.sandbox
           /\ remote' = r.remote
    /\ UNCHANGED <<adResult, adFailed, adEnv, adStaged, toolVars>>
    /\ UNCHANGED <<loopVars, storeVars, threadVars, callVars>>

\* initialize raises to its caller.
AdInitializeRaises ==
    /\ Len(remote) < MaxSandboxes
    /\ \E fail \in {"create", "start"} :
         LET r == initialize(adSandbox, remote, fail)
         IN  /\ adSandbox' = r.sandbox
             /\ remote' = r.remote
    /\ UNCHANGED <<adResult, adFailed, adEnv, adStaged, toolVars>>
    /\ UNCHANGED <<loopVars, storeVars, threadVars, callVars>>

AdExecuteCode ==
    /\ adSandbox # 0 \/ Len(remote) < MaxSandboxes
    /\ \E files \in FileLists, env \in ExecEnvs :
         LET r == execute_code(adSandbox, remote, files, env)
         IN  /\ adResult' = r.ret
             /\ adFailed' = r.failed
             /\ adSandbox' = r.sandbox
             /\ remote' = r.remote
             /\ adEnv' = env
    /\ UNCHANGED <<adStaged, toolVars>>
    /\ UNCHANGED <<loopVars, storeVars, threadVars, callVars>>

\* E2BCodeInterpreter.close
AdClose ==
    /\ adSandbox # 0
    /\ remote' = [remote EXCEPT ![adSandbox] = KilledSandbox]
    /\ adSandbox' = 0
    /\ UNCHANGED <<adResult, adFailed, adEnv, adStaged, toolVars>>
    /\ UNCHANGED <<loopVars, storeVars, threadVars, callVars>>

AdapterNext == AdInitializeOk \/ AdInitializeRaises \/ AdExecuteCode \/ AdClose

AdapterInit == LoopIdle /\ StoreStart /\ ThreadsStart /\ AdapterStart /\ CallStart

SpecAdapter == AdapterInit /\ [][AdapterNext]_vars

\* C6: execute_code never lets an exception out: every call returns a
\* result record, and when the sandbox start, a file upload or the execution
\* failed, that record has success = false and a stderr that says so.
C6_ExecuteNeverRaises ==
    /\ ~adResult.propagated
    /\ adFailed \in {"create", "start", "upload", "exec"} =>
          /\ adResult.returned
          /\ adResult.success = FALSE
          /\ adResult.stderr # <<>>
          /\ adResult.stderr[1] \in {"Internal error", "Execution error"}
    /\ adFailed \in {"figures", "read"} => adResult.returned

C6_Witness ==
    /\ adFailed = "upload"
    /\ adResult.returned
    /\ adResult.success = FALSE
    /\ adSandbox # 0

\* The last execute_code call met an interpreter-level error: a remote step
\* up to the execution failed, or the code ran and exited with an error.
InterpreterError ==
    \/ adFailed \in {"create", "start", "upload", "exec"}
    \/ adFailed \in {"none", "figures", "read"} /\ adEnv.exit_code # 0

WrittenImages(writes) ==
    { Artifact(writes[j]) : j \in { k \in 1..Len(writes) : IsImage(writes[k]) } }

\* C13 (as claimed): the artifacts of a result are images that the execution
\* which produced the result wrote; an image that only an earlier execution
\* in the same sandbox wrote is not among them.
C13_ArtifactsOfThisRunClaimed ==
    adResult.returned =>
        \A i \in 1..Len(adResult.artifacts) :
            adResult.artifacts[i] \in WrittenImages(adEnv.writes)


\* ======================================== the life of the two sandbox adapters
\* One CodeInterpreterFunctionTool and one E2BCodeInterpreter, each created,
\* used and closed by a caller, one call at a time.

\* CodeInterpreterFunctionTool.__init__ with E2B_API_KEY set:
\* self.code_interpreter = CodeInterpreterSandbox()
ToolConstruct ==
    /\ toolSb = "unset"
    /\ toolSb' = "live"
    /\ UNCHANGED <<toolKills, toolRaised, toolOut>>
    /\ UNCHANGED <<adSandbox, remote, adResult, adFailed, adEnv, adStaged>>
    /\ UNCHANGED <<loopVars, storeVars, threadVars, callVars>>

\* CodeInterpreterFunctionTool.call: run_code, then the dict of its parts.
\* run_code may raise, and on a killed sandbox it can only raise.
ToolCall ==
    /\ toolSb \in {"live", "killed"}
    /\ \E o \in RunCodeOutcomes :
         /\ toolSb = "killed" => o.raised
         /\ toolRaised' = IF o.raised THEN "call" ELSE "none"
         /\ toolOut' = IF o.raised THEN toolOut ELSE <<call(o.execution)>>
    /\ UNCHANGED <<toolSb, toolKills>>
    /\ UNCHANGED <<adSandbox, remote, adResult, adFailed, adEnv, adStaged>>
    /\ UNCHANGED <<loopVars, storeVars, threadVars, callVars>>

\* CodeInterpreterFunctionTool.close: self.code_interpreter.kill(), whatever
\* was done before.  What kill() does for a sandbox that is already gone is
\* the library's choice: it returns or it raises.
ToolClose ==
    /\ toolSb \in {"live", "killed"}
    /\ toolKills < MaxCloses
    /\ toolKills' = toolKills + 1
    /\ toolSb' = "killed"
    /\ \E raises \in BOOLEAN :
         /\ raises => toolSb = "killed"
         /\ toolRaised' = IF raises THEN "close" ELSE "none"
    /\ UNCHANGED toolOut
    /\ UNCHANGED <<adSandbox, remote, adResult, adFailed, adEnv, adStaged>>
    /\ UNCHANGED <<loopVars, storeVars, threadVars, callVars>>

\* E2BCodeInterpreter.upload_file called by itself: it starts a sandbox when
\* none is held, then stages the file.
AdUploadFile ==
    /\ adSandbox # 0 \/ Len(remote) < MaxSandboxes
    /\ \E files \in FileLists \ {<<>>}, fail \in {"none", "create", "start", "upload"} :
         LET ini == IF adSandbox = 0 THEN initialize(adSandbox, remote, fail)
                    ELSE [raised |-> FALSE, sandbox |-> adSandbox, remote |-> remote]
         IN  /\ adSandbox' = ini.sandbox
             /\ remote' = IF ini.raised THEN ini.remote
                          ELSE upload_file(ini.sandbox, ini.remote, files[1],
                                           fail = "upload").remote
    /\ UNCHANGED <<adResult, adFailed, adEnv, adStaged, toolVars>>
    /\ UNCHANGED <<loopVars, storeVars, threadVars, callVars>>

LifecycleNext ==
    \/ ToolConstruct \/ ToolCall \/ ToolClose
    \/ AdInitializeOk \/ AdInitializeRaises \/ AdUploadFile \/ AdClose

LifecycleInit == LoopIdle /\ StoreStart /\ ThreadsStart /\ AdapterStart /\ CallStart

SpecLifecycle == LifecycleInit /\ [][LifecycleNext]_vars

\* The remote sandboxes the E2BCodeInterpreter has made that are alive.
LiveSandboxes == { i \in 1..Len(remote) : remote[i].live }

\* C15 (as claimed): whatever sequence of initialize, upload_file and close
\* calls is made on one adapter, at most one sandbox it provisioned is alive:
\* an initialize on a started adapter provisions no second one.
C15_AtMostOneLiveClaimed == Cardinality(LiveSandboxes) <= 1

\* C14 (as claimed): a second close() of an adapter does no teardown on the
\* remote sandbox: the sandbox of a CodeInterpreterFunctionTool gets at most
\* one kill request, however often the tool is closed.
C14_SecondCloseDoesNothingClaimed == toolKills <= 1


\* ===================================================== staging of the files
\* execute_code called with the files of a session, on one adapter; what is
\* kept of each call is what it was given and what its code found.
StagingEnvs == { e \in ExecEnvs : e.writes = <<>> }

AdExecuteStaged ==
    /\ adSandbox # 0 \/ Len(remote) < MaxSandboxes
    /\ \E files \in FileLists, env \in StagingEnvs :
         LET r == execute_code(adSandbox, remote, files, env)
         IN  /\ adResult' = r.ret
             /\ adFailed' = r.failed
             /\ adSandbox' = r.sandbox
             /\ remote' = r.remote
             /\ adEnv' = env
             /\ adStaged' = [files |-> files, visible |-> r.visible,
                             overwrote |-> StagedPaths(files)
                                           \cap DataIn(adSandbox, remote) \cap r.visible]
    /\ UNCHANGED toolVars
    /\ UNCHANGED <<loopVars, storeVars, threadVars, callVars>>

StagingNext == AdInitializeOk \/ AdExecuteStaged \/ AdUploadFile \/ AdClose

StagingInit == LoopIdle /\ StoreStart /\ ThreadsStart /\ AdapterStart /\ CallStart

SpecStaging == StagingInit /\ [][StagingNext]_vars

get_memory(sess, heap, session_id) ==
    IF sess[session_id] = 0
    THEN [sessions |-> [sess EXCEPT ![session_id] = Len(heap) + 1],
          heap |-> Append(heap, NewMemory),
          ret |-> Len(heap) + 1]
    ELSE [sessions |-> sess, heap |-> heap, ret |-> sess[session_id]]

\* ConversationManager.get_conversation
get_conversation(convs, heap, session_id) ==
    IF convs[session_id] = 0
    THEN [conversations |-> [convs EXCEPT ![session_id] = Len(heap) + 1],
          heap |-> Append(heap, NewConversation),
          ret |-> Len(heap) + 1]
    ELSE [conversations |-> convs, heap |-> heap, ret |-> convs[session_id]]

\* ConversationManager.clear_memory
clear_memory_keeps_conversation(sess, convs, session_id) ==
    [sessions |-> IF sess[session_id] # 0
                  THEN [sess EXCEPT ![session_id] = 0] ELSE sess,
     conversations |-> convs]

clear_memory(sess, convs, session_id) ==
    [sessions |-> IF sess[session_id] # 0
                  THEN [sess EXCEPT ![session_id] = 0] ELSE sess,
     conversations |-> IF convs[session_id] # 0
                       THEN [convs EXCEPT ![session_id] = 0] ELSE convs]

StGetMemory ==
    \E s \in Sids :
      /\ sessions[s] # 0 \/ Len(memHeap) < MaxObjects
      /\ LET r == get_memory(sessions, memHeap, s)
         IN  /\ sessions' = r.sessions
             /\ memHeap' = r.heap
             /\ called' = [op |-> "get_memory", sid |-> s, ret |-> r.ret,
                           after |-> pendingMem[s], noop |-> FALSE]
      /\ pendingMem' = [pendingMem EXCEPT ![s] = "no"]
      /\ UNCHANGED <<conversations, convHeap, pendingConv, appended, serialVars>>
      /\ UNCHANGED <<loopVars, threadVars, adapterVars>>

StGetConversation ==
    \E s \in Sids :
      /\ conversations[s] # 0 \/ Len(convHeap) < MaxObjects
      /\ LET r == get_conversation(conversations, convHeap, s)
         IN  /\ conversations' = r.conversations
             /\ convHeap' = r.heap
             /\ called' = [op |-> "get_conversation", sid |-> s, ret |-> r.ret,
                           after |-> pendingConv[s], noop |-> FALSE]
      /\ pendingConv' = [pendingConv EXCEPT ![s] = "no"]
      /\ UNCHANGED <<sessions, memHeap, pendingMem, appended, serialVars>>
      /\ UNCHANGED <<loopVars, threadVars, adapterVars>>

\* memory.chat_memory.add_user_message on the memory of a session.
StAddUserMessage ==
    \E s \in Sids, p \in Prompts :
      /\ sessions[s] # 0
      /\ Len(memHeap[sessions[s]]) < MaxHistory
      /\ memHeap' = [memHeap EXCEPT ![sessions[s]] = Append(@, HumanMessage(p))]
      /\ called' = [op |-> "add_user_message", sid |-> s, ret |-> 0,
                    after |-> "no", noop |-> FALSE]
      /\ UNCHANGED <<sessions, conversations, convHeap, pendingMem, pendingConv, appended, serialVars>>
      /\ UNCHANGED <<loopVars, threadVars, adapterVars>>

\* Conversation.add_files on the Conversation of a session.
StAddFiles ==
    \E s \in Sids, fd \in FileData :
      /\ conversations[s] # 0
      /\ convHeap[conversations[s]].files = <<>>
      /\ convHeap' = [convHeap EXCEPT ![conversations[s]] = add_files(@, fd)]
      /\ called' = [op |-> "add_files", sid |-> s, ret |-> 0,
                    after |-> "no", noop |-> FALSE]
      /\ UNCHANGED <<sessions, conversations, memHeap, pendingMem, pendingConv, appended, serialVars>>
      /\ UNCHANGED <<loopVars, threadVars, adapterVars>>

\* What a clear found under an id: nothing, an empty object, or one with
\* content.
Found(table, heap, empty, s) ==
    IF table[s] = 0 THEN "cleared_absent"
    ELSE IF heap[table[s]] = empty THEN "cleared_empty"
    ELSE "cleared_full"

\* clear_session: conversation_manager.clear_memory(session_id)
StClear ==
    \E s \in Sids :
      /\ LET r == clear_memory(sessions, conversations, s)
         IN  /\ sessions' = r.sessions
             /\ conversations' = r.conversations
             /\ called' = [op |-> "clear_memory", sid |-> s, ret |-> 0,
                           after |-> IF sessions[s] = 0 /\ conversations[s] = 0
                                     THEN "absent" ELSE "present",
                           noop |-> (r.sessions = sessions
                                     /\ r.conversations = conversations)]
      /\ pendingMem' = [pendingMem EXCEPT ![s] = Found(sessions, memHeap, NewMemory, s)]
      /\ pendingConv' =
            [pendingConv EXCEPT ![s] = Found(conversations, convHeap, NewConversation, s)]
      /\ UNCHANGED <<memHeap, convHeap, appended, serialVars>>
      /\ UNCHANGED <<loopVars, threadVars, adapterVars>>

StoreNext ==
    StGetMemory \/ StGetConversation \/ StAddUserMessage \/ StAddFiles \/ StClear

StoreInit == LoopIdle /\ StoreStart /\ ThreadsStart /\ AdapterStart /\ CallStart

SpecStore == StoreInit /\ [][StoreNext]_vars

\* C10: after a clear of a session id, neither table has an entry for it; the
\* next get-or-create for that id returns an object with an empty history,
\* respectively with no files and no messages; a clear of an id that has no
\* entry in either table leaves both tables as they were.
C10_ClearThenFresh ==
    /\ called.op = "clear_memory" =>
          /\ sessions[called.sid] = 0
          /\ conversations[called.sid] = 0
          /\ called.after = "absent" => called.noop
    /\ (called.op = "get_memory" /\ called.after # "no") =>
          /\ sessions[called.sid] = called.ret
          /\ memHeap[called.ret] = <<>>
    /\ (called.op = "get_conversation" /\ called.after # "no") =>
          /\ conversations[called.sid] = called.ret
          /\ convHeap[called.ret].files = <<>>
          /\ convHeap[called.ret].messages = <<>>
    /\ \A s \in Sids :
          /\ pendingMem[s] # "no" => sessions[s] = 0
          /\ pendingConv[s] # "no" => conversations[s] = 0

\* A session with files is cleared and asked for again.
C10_Witness ==
    /\ called.op = "get_conversation"
    /\ called.after = "cleared_full"
    /\ \E i \in 1..Len(memHeap) : memHeap[i] # <<>>


\* ====================================================== appending to a session
\* One caller that gets sessions and appends to them: turns to the memory
\* (as the save loop of process_with_memory does, one call at a time) and
\* messages to the Conversation.

\* Conversation.add_message
add_message_in_front(conversation, message) ==
    [conversation EXCEPT !.messages = <<message>> \o @]

add_message(conversation, message) ==
    [conversation EXCEPT !.messages = Append(@, message)]

\* Conversation.get_messages
get_messages(conversation) == conversation.messages

\* The system note add_files passes to add_message.
FileNote(file_data) ==
    [role |-> "system", content |-> [i \in 1..Len(file_data) |-> file_data[i].name]]

HGetMemory ==
    \E s \in Sids :
      /\ LET r == get_memory(sessions, memHeap, s)
         IN  /\ sessions' = r.sessions
             /\ memHeap' = r.heap
      /\ UNCHANGED <<conversations, convHeap, callVars>>
      /\ UNCHANGED <<loopVars, threadVars, adapterVars>>

HGetConversation ==
    \E s \in Sids :
      /\ LET r == get_conversation(conversations, convHeap, s)
         IN  /\ conversations' = r.conversations
             /\ convHeap' = r.heap
      /\ UNCHANGED <<sessions, memHeap, callVars>>
      /\ UNCHANGED <<loopVars, threadVars, adapterVars>>

\* memory.chat_memory.add_user_message(content)
HAddUserMessage ==
    \E s \in Sids, p \in Prompts :
      /\ sessions[s] # 0
      /\ Len(memHeap[sessions[s]]) < MaxTurns
      /\ memHeap' = add_messages(memHeap, sessions[s], <<HumanMessage(p)>>)
      /\ appended' = [appended EXCEPT ![s].turns = Append(@, HumanMessage(p))]
      /\ UNCHANGED <<sessions, conversations, convHeap, called, pendingMem, pendingConv, serialVars>>
      /\ UNCHANGED <<loopVars, threadVars, adapterVars>>

\* memory.chat_memory.add_ai_message(content)
HAddAiMessage ==
    \E s \in Sids :
      /\ sessions[s] # 0
      /\ Len(memHeap[sessions[s]]) < MaxTurns
      /\ memHeap' = add_messages(memHeap, sessions[s], <<AIMessage("text", <<>>)>>)
      /\ appended' = [appended EXCEPT ![s].turns = Append(@, AIMessage("text", <<>>))]
      /\ UNCHANGED <<sessions, conversations, convHeap, called, pendingMem, pendingConv, serialVars>>
      /\ UNCHANGED <<loopVars, threadVars, adapterVars>>

\* conversation.add_message({"role": "user", "content": prompt})
HAddMessage ==
    \E s \in Sids, p \in Prompts :
      /\ conversations[s] # 0
      /\ Len(convHeap[conversations[s]].messages) < MaxTurns
      /\ LET m == [role |-> "user", content |-> <<p>>]
         IN  /\ convHeap' = [convHeap EXCEPT ![conversations[s]] = add_message(@, m)]
             /\ appended' = [appended EXCEPT ![s].messages = Append(@, m)]
      /\ UNCHANGED <<sessions, conversations, memHeap, called, pendingMem, pendingConv, serialVars>>
      /\ UNCHANGED <<loopVars, threadVars, adapterVars>>

\* conversation.add_files(file_data): its note is one more message.
HAddFiles ==
    \E s \in Sids, fd \in FileData :
      /\ conversations[s] # 0
      /\ convHeap[conversations[s]].files = <<>>
      /\ Len(convHeap[conversations[s]].messages) < MaxTurns
      /\ convHeap' = [convHeap EXCEPT ![conversations[s]] = add_files(@, fd)]
      /\ appended' = [appended EXCEPT ![s].messages = Append(@, FileNote(fd))]
      /\ UNCHANGED <<sessions, conversations, memHeap, called, pendingMem, pendingConv, serialVars>>
      /\ UNCHANGED <<loopVars, threadVars, adapterVars>>

HistoryNext ==
    \/ HGetMemory \/ HGetConversation
    \/ HAddUserMessage \/ HAddAiMessage \/ HAddMessage \/ HAddFiles

HistoryInit == LoopIdle /\ StoreStart /\ ThreadsStart /\ AdapterStart /\ CallStart

SpecHistory == HistoryInit /\ [][HistoryNext]_vars

\* C12: whatever has been appended to a session, reading its history gives
\* exactly the appended turns in the order of the appends, and reading its
\* Conversation's messages gives exactly the appended messages in that order.
C12_HistoryIsTheAppends ==
    \A s \in Sids :
        /\ sessions[s] # 0 => memHeap[sessions[s]] = appended[s].turns
        /\ sessions[s] = 0 => appended[s].turns = <<>>
        /\ conversations[s] # 0 =>
              get_messages(convHeap[conversations[s]]) = appended[s].messages
        /\ conversations[s] = 0 => appended[s].messages = <<>>

\* Two different turns and two different messages were appended to a session.
C12_Witness ==
    \E s \in Sids :
        /\ sessions[s] # 0
        /\ conversations[s] # 0
        /\ memHeap[sessions[s]] = <<HumanMessage("p1"), AIMessage("text", <<>>)>>
        /\ Len(get_messages(convHeap[conversations[s]])) = 2
        /\ get_messages(convHeap[conversations[s]])[1].role = "user"
        /\ get_messages(convHeap[conversations[s]])[2].role = "system"

\* ============================================ serializing and loading back
\* A caller of serialize_memory and load_memory.  The two conversions are
\* langchain's: messages_to_dict gives, message by message, the type tag and
\* the message's fields; messages_from_dict builds, dict by dict, a message of
\* the class the type tag names from those fields.
ToolMessage(c, id) == [type |-> "tool", content |-> c, tool_call_id |-> id]

StoredTurns ==
    { HumanMessage("p1"), AIMessage("text", <<>>), SystemMessage("note"),
      ToolMessage("out", "call_1") }

message_to_dict(m) == [type |-> m.type, data |-> m]

messages_to_dict(messages) == [i \in 1..Len(messages) |-> message_to_dict(messages[i])]

message_from_dict(d) ==
    CASE d.type = "human" -> HumanMessage(d.data.content)
      [] d.type = "ai" -> AIMessage(d.data.content, d.data.tool_calls)
      [] d.type = "system" -> SystemMessage(d.data.content)
      [] d.type = "tool" -> ToolMessage(d.data.content, d.data.tool_call_id)

messages_from_dict(dicts) == [i \in 1..Len(dicts) |-> message_from_dict(dicts[i])]

\* ConversationManager.serialize_memory
serialize_memory(sess, heap, session_id) ==
    IF sess[session_id] # 0 THEN messages_to_dict(heap[sess[session_id]]) ELSE <<>>

\* ConversationManager.load_memory: get_memory, then the message list of the
\* memory is replaced.
load_memory_extends(sess, heap, session_id, messages_dict) ==
    LET r == get_memory(sess, heap, session_id)
    IN  [sessions |-> r.sessions,
         heap |-> [r.heap EXCEPT ![r.ret] = @ \o messages_from_dict(messages_dict)]]

load_memory(sess, heap, session_id, messages_dict) ==
    LET r == get_memory(sess, heap, session_id)
    IN  [sessions |-> r.sessions,
         heap |-> [r.heap EXCEPT ![r.ret] = messages_from_dict(messages_dict)]]

RECURSIVE TotalLen(_, _)
TotalLen(heap, i) == IF i > Len(heap) THEN 0 ELSE Len(heap[i]) + TotalLen(heap, i + 1)

\* chat_memory.add_message on the memory of a session, for a turn of any role.
SrAddMessage ==
    \E s \in Sids, m \in StoredTurns :
      /\ sessions[s] # 0
      /\ TotalLen(memHeap, 1) < MaxStored
      /\ memHeap' = [memHeap EXCEPT ![sessions[s]] = Append(@, m)]
      /\ called' = [op |-> "add_message", sid |-> s, ret |-> 0,
                    after |-> "no", noop |-> FALSE]
      /\ UNCHANGED <<sessions, conversations, convHeap, pendingMem, pendingConv,
                     appended, serialVars>>
      /\ UNCHANGED <<loopVars, threadVars, adapterVars>>

SrSerialize ==
    \E s \in Sids :
      /\ stored' = serialize_memory(sessions, memHeap, s)
      /\ original' = IF sessions[s] = 0 THEN <<>> ELSE memHeap[sessions[s]]
      /\ called' = [op |-> "serialize_memory", sid |-> s, ret |-> 0,
                    after |-> "no", noop |-> TRUE]
      /\ UNCHANGED <<storeVars, pendingMem, pendingConv, appended>>
      /\ UNCHANGED <<loopVars, threadVars, adapterVars>>

SrLoad ==
    \E s \in Sids :
      /\ sessions[s] # 0 \/ Len(memHeap) < MaxObjects
      /\ LET r == load_memory(sessions, memHeap, s, stored)
         IN  /\ sessions' = r.sessions
             /\ memHeap' = r.heap
             /\ called' = [op |-> "load_memory", sid |-> s, ret |-> 0,
                           after |-> IF sessions[s] = 0 THEN "absent"
                                     ELSE IF memHeap[sessions[s]] = <<>> THEN "empty"
                                     ELSE "full",
                           noop |-> (r.heap = memHeap)]
      /\ UNCHANGED <<conversations, convHeap, pendingMem, pendingConv, appended, serialVars>>
      /\ UNCHANGED <<loopVars, threadVars, adapterVars>>

SerialNext == StGetMemory \/ SrAddMessage \/ SrSerialize \/ SrLoad

SerialInit == LoopIdle /\ StoreStart /\ ThreadsStart /\ AdapterStart /\ CallStart

SpecSerial == SerialInit /\ [][SerialNext]_vars

====
